---- MODULE Spec2Model ----
(***************************************************************************)
(* AST-Safe Rename Tool (src/main.py).                                     *)
(*                                                                         *)
(* Two specifications over one set of variables:                           *)
(*   SpecRename  the per-file pipeline parse -> find_identifiers ->        *)
(*               Renamer -> ast.unparse, applied to bounded source texts;  *)
(*   Spec        main(): scan / preview / confirm / write / manifest and   *)
(*               undo, over a small file system, for successive runs.      *)
(***************************************************************************)
EXTENDS Integers, Sequences, FiniteSets, TLC

\* ------------------------------------------------------------------------
\* Bounds
\* ------------------------------------------------------------------------
\* Nesting depth of the syntax trees drawn as input of the rename pipeline.
MaxDepth == 2

\* Number of .py files under the scanned root.
NumFiles == 2

\* Number of successive runs of the tool on the same file system.
MaxRuns == 2

\* Spellings: identifiers, and the words inside string literals and comments.
Idents == {"x", "y"}

\* ------------------------------------------------------------------------
\* Syntax trees and source text
\* ------------------------------------------------------------------------
\* A node of the syntax tree: its class, its identifier-bearing field (for a
\* Constant, the literal's text) and its child nodes in field order.
Node(k, i, ks) == [kind |-> k, id |-> i, kids |-> ks]

DefKinds == {"FunctionDef", "AsyncFunctionDef", "ClassDef"}

\* The node classes that carry a renameable identifier.
SixKinds == {"Name", "FunctionDef", "AsyncFunctionDef", "ClassDef", "Attribute", "arg"}

\* Expressions: a name, a string literal, an attribute access on an expression.
RECURSIVE Exprs(_)
Exprs(d) ==
    {Node(k, i, <<>>) : k \in {"Name", "Constant"}, i \in Idents}
    \cup (IF d = 0 THEN {}
          ELSE {Node("Attribute", i, <<e>>) : i \in Idents, e \in Exprs(d - 1)})

\* Parameters: bare, or with an annotation expression as their child.
Args(d) ==
    {Node("arg", i, <<>>) : i \in Idents}
    \cup (IF d = 0 THEN {}
          ELSE {Node("arg", i, <<e>>) : i \in Idents, e \in Exprs(d - 1)})

\* Statements: an expression statement, or a function / async function / class
\* definition holding nothing, a parameter or a nested statement.
RECURSIVE Stmts(_)
Stmts(d) ==
    IF d = 0 THEN {}
    ELSE {Node("Expr", "", <<e>>) : e \in Exprs(d - 1)}
         \cup {Node(k, i, <<>>) : k \in DefKinds, i \in Idents}
         \cup {Node(k, i, <<c>>) : k \in DefKinds, i \in Idents,
                                   c \in Args(d - 1) \cup Stmts(d - 1)}

\* A line of source text.  A code line holds one statement and records
\* whether it is spelled exactly as ast.unparse would spell it; a comment line
\* holds its words; a "bad" line does not parse; a "bin" line is not UTF-8.
CodeLine(n, c) == [t |-> "code", node |-> n, canon |-> c]
CommentLine(w) == [t |-> "comment", node |-> Node("Comment", w, <<>>), canon |-> TRUE]
BadLine        == [t |-> "bad", node |-> Node("Error", "", <<>>), canon |-> TRUE]
BinLine        == [t |-> "bin", node |-> Node("Error", "", <<>>), canon |-> TRUE]

\* The empty string.
EmptyText == <<>>

\* ------------------------------------------------------------------------
\* Tree Adapter
\* ------------------------------------------------------------------------
\* read_text: decoding fails on a line that is not UTF-8.
ReadFails(text) == \E i \in 1..Len(text) : text[i].t = "bin"

\* parse_to_ast: fails on a syntax error.
ParseFails(text) == \E i \in 1..Len(text) : text[i].t = "bad"

IsCode(line) == line.t = "code"

\* parse_to_ast: the Module node, whose children are the statements; comments
\* and layout are not part of the tree.
parse_to_ast(text) ==
    LET code == SelectSeq(text, IsCode)
    IN  Node("Module", "", [i \in 1..Len(code) |-> code[i].node])

\* ast_to_source: one canonically spelled line per statement, no comments.
ast_to_source(tree) ==
    [i \in 1..Len(tree.kids) |-> CodeLine(tree.kids[i], TRUE)]

\* ------------------------------------------------------------------------
\* Occurrence Locator
\* ------------------------------------------------------------------------
\* IdentifierFinder: every visit_* method tests the node's identifier field
\* and then calls generic_visit; a class without a method is only descended.
RECURSIVE Finder_visit(_, _, _), Finder_generic_visit(_, _, _, _)
Finder_generic_visit(node, old_name, pos, i) ==
    IF i > Len(node.kids) THEN <<>>
    ELSE Finder_visit(node.kids[i], old_name, Append(pos, i))
         \o Finder_generic_visit(node, old_name, pos, i + 1)

Finder_visit(node, old_name, pos) ==
    (IF node.kind \in SixKinds /\ node.id = old_name
     THEN <<[pos |-> pos, kind |-> node.kind]>>
     ELSE <<>>)
    \o Finder_generic_visit(node, old_name, pos, 1)

\* find_identifiers: the occurrences in depth-first pre-order; pos stands for
\* (lineno, col_offset), the place of the node in the tree.
find_identifiers(tree, old_name) == Finder_visit(tree, old_name, <<>>)

\* ------------------------------------------------------------------------
\* Rewriter
\* ------------------------------------------------------------------------
RECURSIVE Renamer_visit(_, _, _)

\* NodeTransformer.generic_visit: visit every child, keep the node's own fields.
Renamer_generic_visit(node, old_name, new_name) ==
    [node EXCEPT !.kids = [i \in 1..Len(node.kids) |->
                              Renamer_visit(node.kids[i], old_name, new_name)]]

\* The node with its identifier field renamed when it equals old_name.
Renamed(node, old_name, new_name) ==
    IF node.id = old_name THEN [node EXCEPT !.id = new_name] ELSE node

\* visit_Name: rename, no generic_visit.
visit_Name(node, old_name, new_name) == Renamed(node, old_name, new_name)

\* visit_FunctionDef: rename, then generic_visit.
visit_FunctionDef(node, old_name, new_name) ==
    Renamer_generic_visit(Renamed(node, old_name, new_name), old_name, new_name)

\* visit_AsyncFunctionDef: rename, then generic_visit.
visit_AsyncFunctionDef(node, old_name, new_name) ==
    Renamer_generic_visit(Renamed(node, old_name, new_name), old_name, new_name)

\* visit_ClassDef: rename, then generic_visit.
visit_ClassDef(node, old_name, new_name) ==
    Renamer_generic_visit(Renamed(node, old_name, new_name), old_name, new_name)

\* visit_Attribute: rename, then generic_visit.
visit_Attribute(node, old_name, new_name) ==
    Renamer_generic_visit(Renamed(node, old_name, new_name), old_name, new_name)

\* visit_arg: rename, no generic_visit: the annotation is not visited.
visit_arg(node, old_name, new_name) == Renamed(node, old_name, new_name)

\* Mutant of the Renamer: a visit_Constant that renames matching literals.
Renamer_visit_literals(node, old_name, new_name) ==
    CASE node.kind = "Name"             -> visit_Name(node, old_name, new_name)
      [] node.kind = "FunctionDef"      -> visit_FunctionDef(node, old_name, new_name)
      [] node.kind = "AsyncFunctionDef" -> visit_AsyncFunctionDef(node, old_name, new_name)
      [] node.kind = "ClassDef"         -> visit_ClassDef(node, old_name, new_name)
      [] node.kind = "Attribute"        -> visit_Attribute(node, old_name, new_name)
      [] node.kind = "arg"              -> visit_arg(node, old_name, new_name)
      [] node.kind = "Constant"         -> Renamed(node, old_name, new_name)
      [] OTHER                          -> Renamer_generic_visit(node, old_name, new_name)

\* Renamer (lines 79-112) under NodeTransformer.visit: dispatch on the node's
\* class to the six visit_* methods, generic_visit for every other class.
Renamer_visit(node, old_name, new_name) ==
    CASE node.kind = "Name"             -> visit_Name(node, old_name, new_name)
      [] node.kind = "FunctionDef"      -> visit_FunctionDef(node, old_name, new_name)
      [] node.kind = "AsyncFunctionDef" -> visit_AsyncFunctionDef(node, old_name, new_name)
      [] node.kind = "ClassDef"         -> visit_ClassDef(node, old_name, new_name)
      [] node.kind = "Attribute"        -> visit_Attribute(node, old_name, new_name)
      [] node.kind = "arg"              -> visit_arg(node, old_name, new_name)
      [] OTHER                          -> Renamer_generic_visit(node, old_name, new_name)

\* apply_rename_to_tree(tree, create_renamer(old, new)).
apply_rename_to_tree(tree, old_name, new_name) == Renamer_visit(tree, old_name, new_name)

\* ------------------------------------------------------------------------
\* File Pipeline
\* ------------------------------------------------------------------------
\* safe_process_file: (original, modified, has_changes).
safe_process_file(text, old, new) ==
    IF ReadFails(text) \/ ParseFails(text)
    THEN <<EmptyText, EmptyText, FALSE>>
    ELSE IF find_identifiers(parse_to_ast(text), old) = <<>>
         THEN <<text, text, FALSE>>
         ELSE <<text,
                ast_to_source(apply_rename_to_tree(parse_to_ast(text), old, new)),
                TRUE>>

\* ------------------------------------------------------------------------
\* Tree navigation used to state properties
\* ------------------------------------------------------------------------
\* The positions (child-index paths) of all nodes of a tree.
RECURSIVE Positions(_)
Positions(node) ==
    {<<>>} \cup UNION {{<<i>> \o p : p \in Positions(node.kids[i])} : i \in 1..Len(node.kids)}

RECURSIVE NodeAt(_, _)
NodeAt(node, pos) ==
    IF pos = <<>> THEN node ELSE NodeAt(node.kids[Head(pos)], Tail(pos))

\* ------------------------------------------------------------------------
\* State
\* ------------------------------------------------------------------------
VARIABLES
    text,           \* SpecRename: the content of the one file under rename
    spelling,       \* SpecRename: <<old, new>>
    phase,          \* SpecRename: "scan" (pipeline next), "write" (write-back next), "end"
    pass,           \* SpecRename: number of pipeline passes run so far
    source,         \* SpecRename: the text the last pass read
    occurrences,    \* SpecRename: find_identifiers' result in the last pass
    tree,           \* SpecRename: the parsed tree of the last pass
    modified_tree,  \* SpecRename: the tree after apply_rename_to_tree (tree itself when not run)
    rec,            \* SpecRename: the last pass's (original, modified, has_changes)
    disk,           \* file system: content of every source file and temporary file
    bak,            \* file system: content of every backup file, by backup path
    manifest_file,  \* file system: the persisted manifest (NoManifest when absent)
    run,            \* number of runs started
    pc,             \* position of the current run in main ("idle": no run)
    args,           \* parse_args' result for the current run
    idx,            \* loop index of the scan, write or restore loop
    changes,        \* main's changes: path -> <<original, modified>>
    manifest,       \* main's manifest, or the manifest restore_backups loaded
    tmp,            \* write_file_atomic's tmp_path (NoTmp outside the call)
    exit_code,      \* exit code of the last finished run (NoCode before)
    disk0,          \* history: disk when the current run started
    backed,         \* history: paths passed to backup_file in the current run
    wcalls,         \* history: paths passed to write_file_atomic in the current run
    written,        \* history: paths whose move completed in the current run
    answer,         \* history: what confirm returned in the current run
    last_apply,     \* history: the latest --apply run: disk before it, paths it overwrote,
                    \*          whether it completed, and the manifest it ended with
    prev_apply,     \* history: the same of the --apply run before the latest
    out             \* history: the lines the current run printed

rvars == <<text, spelling, phase, pass, source, occurrences, tree, modified_tree, rec>>

fsvars == <<disk, bak, manifest_file>>

mvars == <<run, pc, args, idx, changes, manifest, tmp, exit_code>>

hvars == <<disk0, backed, wcalls, written, answer, last_apply, prev_apply, out>>

vars == <<rvars, fsvars, mvars, hvars>>

NoTree == Node("Module", "", <<>>)

\* ------------------------------------------------------------------------
\* The file system and the arguments of a run
\* ------------------------------------------------------------------------
\* The i-th source file: directories a and b alternate, so files 1 and 2 are
\* a/1.py and b/1.py and share their base name.
File(k) == [dir |-> IF k % 2 = 1 THEN "a" ELSE "b", base |-> (k + 1) \div 2]

\* collect_py_files: the .py files under the root, in os.walk order.
collect_py_files == [k \in 1..NumFiles |-> File(k)]

Files == {collect_py_files[k] : k \in 1..NumFiles}

Stmt(e) == Node("Expr", "", <<e>>)

\* The contents a source file starts with:
\*   a comment and a reference to x, not spelled as ast.unparse spells it;
\*   def y(y: x), spelled exactly as ast.unparse spells it;
\*   a file that does not parse.
RefText == <<CommentLine("x"), CodeLine(Stmt(Node("Name", "x", <<>>)), FALSE)>>
AnnText == <<CodeLine(Node("FunctionDef", "y",
                           <<Node("arg", "y", <<Node("Name", "x", <<>>)>>)>>), TRUE)>>
BadText == <<BadLine>>

SampleTexts == {RefText, AnnText, BadText}

NoFile == [dir |-> "", base |-> 0]
NoTmp == NoFile
NoCode == 0 - 1
NoArgs == [old |-> "", new |-> "", preview |-> FALSE, apply |-> FALSE, undo |-> FALSE]
NoApply == [pre |-> <<>>, over |-> {}, done |-> FALSE, entries |-> <<>>]
EmptyMap == <<>>

\* parse_args: --undo alone, or --old/--new (valid, different) with any of
\* --preview and --apply.
ArgsSet ==
    {[old |-> "", new |-> "", preview |-> FALSE, apply |-> FALSE, undo |-> TRUE]}
    \cup {[old |-> sp[1], new |-> sp[2], preview |-> p, apply |-> a, undo |-> FALSE] :
             sp \in {<<o, n>> \in Idents \X Idents : o # n}, p \in BOOLEAN, a \in BOOLEAN}

\* A backup path: the mkdtemp directory of a run, the base name of the
\* original, and the numeric suffix (0: name.bak, k: name.bak.k).
BackupPath(d, b, n) == [dir |-> d, base |-> b, n |-> n]

\* The manifest file: whether it exists, and the mapping it holds.
NoManifest == [exists |-> FALSE, entries |-> EmptyMap]
Persisted(m) == [exists |-> TRUE, entries |-> m]

\* A manifest left by an earlier session, and what is left of that session's
\* backup directory: the backup of the first file is gone, the backup of the
\* second file is still there.
StaleManifest ==
    Persisted((File(1) :> BackupPath(0, File(1).base, 0))
              @@ (File(2) :> BackupPath(0, File(2).base, 1)))

StaleBackups == BackupPath(0, File(2).base, 1) :> RefText

\* backup_file's probe loop: name.bak, then name.bak.1, name.bak.2, ...
RECURSIVE probe(_, _, _, _)

\* Mutant of probe: the first name is taken whether or not it exists.
probe_once(existing, backup_dir, base, counter) == BackupPath(backup_dir, base, counter)

probe(existing, backup_dir, base, counter) ==
    IF BackupPath(backup_dir, base, counter) \in existing
    THEN probe(existing, backup_dir, base, counter + 1)
    ELSE BackupPath(backup_dir, base, counter)

\* backup_file: the backup path chosen for path, given the existing backups.
backup_path(path, backup_dir, existing) == probe(existing, backup_dir, path.base, 0)

\* main, line 267: a file enters changes when its original text is truthy.
records(original) == original # EmptyText

\* Mutant of backs_up: the --apply flag is not consulted.
backs_up_any_mode(has_changes, apply) == has_changes

\* main, line 269: the condition under which the scan backs a recorded file up.
backs_up(has_changes, apply) == has_changes /\ apply

\* Mutant of propagates: a read or parse error escapes safe_process_file.
propagates_uncaught(content) == ReadFails(content) \/ ParseFails(content)

\* safe_process_file, lines 193-195: every exception is caught there, so the
\* call never raises into the scan loop.
propagates(content) == FALSE

\* Mutant of proceeds: the answer of the prompt is ignored.
proceeds_always(yes) == TRUE

\* main, lines 287-289: the write phase is entered only on an affirmative answer.
proceeds(yes) == yes

\* Mutant of writes: the write loop writes every entry of changes.
writes_all(original, modified) == TRUE

\* main, line 292: the condition under which the write loop writes a file.
writes(original, modified) == original # modified

\* Mutant of aborts: the write loop goes on with the next file after a failure.
skips_failed(raised) == FALSE

\* main, lines 291-294: nothing in the write loop catches an exception of
\* write_file_atomic, so a failed write ends the loop and the run.
aborts(raised) == raised

\* Mutant of record_manifest: the new entries are merged into the old file.
record_manifest_merged(existing, entries) == Persisted(entries @@ existing.entries)

\* record_manifest: the file is opened with 'w' and holds the new entries only.
record_manifest(existing, entries) == Persisted(entries)

\* Mutant of persists: the manifest is persisted even when it is empty.
persists_always(entries) == TRUE

\* main, line 296: the manifest is persisted when it holds an entry.
persists(entries) == DOMAIN entries # {}

\* Mutant of continues: the restore loop ends at the first missing backup.
stops_at_missing(backup_exists) == backup_exists

\* restore_backups, lines 176-177: a missing backup is printed and the loop
\* goes on with the next entry.
continues(backup_exists) == TRUE

\* The paths of a dict in insertion order (the scan inserts in py_files order).
Keys(m) == SelectSeq(collect_py_files, LAMBDA f : f \in DOMAIN m)

\* The first index >= k of the write loop whose entry is written, 0 if none.
RECURSIVE next_write(_, _)
next_write(ch, k) ==
    IF k > Len(Keys(ch)) THEN 0
    ELSE IF writes(ch[Keys(ch)[k]][1], ch[Keys(ch)[k]][2]) THEN k
    ELSE next_write(ch, k + 1)

\* summarize_stats.
summarize_stats(ch) ==
    LET files_modified == Cardinality({f \in DOMAIN ch : ch[f][1] # ch[f][2]})
    IN  [files_scanned |-> Cardinality(DOMAIN ch),
         files_modified |-> files_modified,
         files_unchanged |-> Cardinality(DOMAIN ch) - files_modified]

\* The rename pipeline's variables, at rest in the specification of main.
RenameIdle ==
    /\ text = EmptyText
    /\ spelling = <<"x", "y">>
    /\ phase = "end"
    /\ pass = 0
    /\ source = EmptyText
    /\ occurrences = <<>>
    /\ tree = NoTree
    /\ modified_tree = NoTree
    /\ rec = <<EmptyText, EmptyText, FALSE>>

\* The variables of main before any run.
MainIdle ==
    /\ run = 0
    /\ pc = "idle"
    /\ args = NoArgs
    /\ idx = 0
    /\ changes = EmptyMap
    /\ manifest = EmptyMap
    /\ tmp = NoTmp
    /\ exit_code = NoCode
    /\ backed = {}
    /\ wcalls = {}
    /\ written = {}
    /\ answer = "none"
    /\ last_apply = NoApply
    /\ prev_apply = NoApply
    /\ out = {}

\* ------------------------------------------------------------------------
\* SpecRename: the rename pass on one file, run twice
\* ------------------------------------------------------------------------
\* What may precede the statement in a drawn file: nothing, a comment, a line
\* that does not parse, a line that does not decode.
Prefixes == {<<>>, <<BadLine>>, <<BinLine>>} \cup {<<CommentLine(w)>> : w \in Idents}

RenameTexts ==
    {pre \o <<CodeLine(n, c)>> : pre \in Prefixes, n \in Stmts(MaxDepth), c \in BOOLEAN}

\* parse_args: --old and --new are identifiers and differ.
SpellingPairs == {<<o, n>> \in Idents \X Idents : o # n}

RenameInit ==
    /\ text \in RenameTexts
    /\ spelling \in SpellingPairs
    /\ phase = "scan"
    /\ pass = 0
    /\ source = EmptyText
    /\ occurrences = <<>>
    /\ tree = NoTree
    /\ modified_tree = NoTree
    /\ rec = <<EmptyText, EmptyText, FALSE>>
    /\ MainIdle
    /\ manifest_file = NoManifest
    /\ bak = EmptyMap
    /\ disk = [f \in Files |-> EmptyText]
    /\ disk0 = disk

\* One call of safe_process_file on the file, keeping its intermediate values.
RenamePass ==
    /\ phase = "scan"
    /\ pass < 2
    /\ LET old == spelling[1]
           new == spelling[2]
           failed == ReadFails(text) \/ ParseFails(text)
           t == IF failed THEN NoTree ELSE parse_to_ast(text)
           occ == find_identifiers(t, old)
       IN  /\ source' = text
           /\ tree' = t
           /\ occurrences' = occ
           /\ modified_tree' = IF occ = <<>> THEN t ELSE apply_rename_to_tree(t, old, new)
           /\ rec' = safe_process_file(text, old, new)
    /\ pass' = pass + 1
    /\ phase' = "write"
    /\ UNCHANGED <<text, spelling, fsvars, mvars, hvars>>

\* main's write of the pass: the file takes the modified text when it differs.
WriteBack ==
    /\ phase = "write"
    /\ text' = IF rec[1] # rec[2] THEN rec[2] ELSE text
    /\ phase' = IF pass < 2 THEN "scan" ELSE "end"
    /\ UNCHANGED <<spelling, pass, source, occurrences, tree, modified_tree, rec>>
    /\ UNCHANGED <<fsvars, mvars, hvars>>

RenameNext == RenamePass \/ WriteBack

SpecRename == RenameInit /\ [][RenameNext]_vars

\* ------------------------------------------------------------------------
\* Spec: successive runs of main on one file system
\* ------------------------------------------------------------------------
\* A printed line: what it says, the path it names, the numbers it states.
Msg(what, path, a, b) == [what |-> what, path |-> path, a |-> a, b |-> b]

\* write_file_atomic, lines 23-25: the file the content is written to, a
\* fresh name in the directory of path (temporary files have bases below 0).
RECURSIVE fresh_tmp(_, _, _)
fresh_tmp(dir_path, existing, n) ==
    IF [dir |-> dir_path, base |-> 0 - n] \in existing
    THEN fresh_tmp(dir_path, existing, n + 1)
    ELSE [dir |-> dir_path, base |-> 0 - n]

\* Mutant of tmp_name: the content is written straight to the target.
tmp_in_place(path, existing) == path

tmp_name(path, existing) == fresh_tmp(path.dir, existing, 1)

\* The temporary files present on disk.
TmpFiles == DOMAIN disk \ Files

Init ==
    /\ RenameIdle
    /\ MainIdle
    /\ disk \in [Files -> SampleTexts]
    /\ manifest_file \in {NoManifest, StaleManifest}
    /\ bak = IF manifest_file.exists THEN StaleBackups ELSE EmptyMap
    /\ disk0 = disk

\* Mutant of Exit: the script exits with 0 whatever main did.
Exit_zero(code) ==
    /\ pc' = "idle"
    /\ exit_code' = 0

\* exit(code) at the bottom of the script.
Exit(code) ==
    /\ pc' = "idle"
    /\ exit_code' = code

\* The script starts: parse_args, then main up to the scan loop.  An undo run
\* goes to restore_backups; a root without .py files returns 0 at once.
StartRunAs(a, no_files) ==
    /\ pc = "idle"
    /\ (a.undo => ~no_files)
    /\ args' = a
    /\ IF a.undo THEN pc' = "undo" /\ exit_code' = NoCode
       ELSE IF no_files THEN Exit(0)
       ELSE pc' = "scan" /\ exit_code' = NoCode
    /\ idx' = IF a.undo \/ no_files THEN 0 ELSE 1
    /\ last_apply' = IF a.apply /\ ~no_files
                     THEN [pre |-> [f \in Files |-> disk[f]], over |-> {},
                           done |-> FALSE, entries |-> EmptyMap]
                     ELSE last_apply
    /\ prev_apply' = IF a.apply /\ ~no_files THEN last_apply ELSE prev_apply
    /\ out' = IF ~a.undo /\ no_files
              THEN {Msg("No Python files found", NoFile, 0, 0)} ELSE {}
    /\ run' = run + 1
    /\ changes' = EmptyMap
    /\ manifest' = EmptyMap
    /\ tmp' = NoTmp
    /\ disk0' = disk
    /\ backed' = {}
    /\ wcalls' = {}
    /\ written' = {}
    /\ answer' = "none"
    /\ UNCHANGED <<rvars, fsvars>>

\* Any run the bounds allow: any accepted arguments, with or without .py
\* files under the root.
StartRun ==
    /\ run < MaxRuns
    /\ \E a \in ArgsSet, no_files \in BOOLEAN : StartRunAs(a, no_files)

\* One iteration of the scan loop (lines 263-270): safe_process_file, the
\* entry in changes, and backup_file.
ScanFile ==
    /\ pc = "scan"
    /\ LET path == collect_py_files[idx]
           r == safe_process_file(disk[path], args.old, args.new)
           original == r[1]
           modified == r[2]
           has_changes == r[3]
           bp == backup_path(path, run, DOMAIN bak)
       IN  /\ changes' = IF ~propagates(disk[path]) /\ records(original)
                         THEN (path :> <<original, modified>>) @@ changes
                         ELSE changes
           /\ IF ~propagates(disk[path]) /\ records(original)
                 /\ backs_up(has_changes, args.apply)
              THEN /\ bak' = (bp :> disk[path]) @@ bak
                   /\ manifest' = (path :> bp) @@ manifest
                   /\ backed' = backed \cup {path}
              ELSE UNCHANGED <<bak, manifest, backed>>
           /\ out' = IF propagates(disk[path])
                     THEN out \cup {Msg("Fatal error", NoFile, 0, 0)}
                     ELSE IF ReadFails(disk[path]) \/ ParseFails(disk[path])
                     THEN out \cup {Msg("Error processing", path, 0, 0)}
                     ELSE out
           /\ IF propagates(disk[path])
              THEN UNCHANGED idx /\ Exit(1)
              ELSE IF idx < NumFiles
              THEN idx' = idx + 1 /\ UNCHANGED <<pc, exit_code>>
              ELSE /\ idx' = 0
                   /\ pc' = IF args.preview \/ ~args.apply THEN "preview" ELSE "confirm"
                   /\ UNCHANGED exit_code
    /\ UNCHANGED <<rvars, disk, manifest_file, run, args, tmp>>
    /\ UNCHANGED <<prev_apply, disk0, wcalls, written, answer, last_apply>>

\* Lines 273-283: preview_changes and the summary; without --apply, return 0.
Preview ==
    /\ pc = "preview"
    /\ out' = out \cup {Msg("Summary", NoFile, summarize_stats(changes).files_modified,
                            summarize_stats(changes).files_unchanged)}
    /\ IF args.apply
       THEN pc' = "confirm" /\ UNCHANGED exit_code
       ELSE Exit(0)
    /\ UNCHANGED <<rvars, fsvars, run, args, idx, changes, manifest, tmp>>
    /\ UNCHANGED <<prev_apply, disk0, backed, wcalls, written, answer, last_apply>>

\* Lines 286-289: the confirmation prompt; declining prints Aborted, returns 1.
Confirm ==
    /\ pc = "confirm"
    /\ \E yes \in BOOLEAN :
          /\ answer' = IF yes THEN "yes" ELSE "no"
          /\ IF proceeds(yes)
             THEN pc' = "write" /\ idx' = 1 /\ UNCHANGED <<exit_code, out>>
             ELSE Exit(1) /\ UNCHANGED idx /\ out' = out \cup {Msg("Aborted", NoFile, 0, 0)}
    /\ UNCHANGED <<rvars, fsvars, run, args, changes, manifest, tmp>>
    /\ UNCHANGED <<prev_apply, disk0, backed, wcalls, written, last_apply>>

\* The path the write loop (lines 291-293) hands to write_file_atomic next.
WritePath == Keys(changes)[next_write(changes, idx)]

\* write_file_atomic, lines 23-27: the temporary file is created beside the
\* target and the content written to it.
WriteTmp ==
    /\ pc = "write"
    /\ next_write(changes, idx) # 0
    /\ LET path == WritePath
           name == tmp_name(path, DOMAIN disk)
       IN  /\ disk' = (name :> changes[path][2]) @@ disk
           /\ tmp' = name
           /\ wcalls' = wcalls \cup {path}
    /\ idx' = next_write(changes, idx)
    /\ pc' = "move"
    /\ UNCHANGED <<rvars, bak, manifest_file, run, args, changes, manifest, exit_code>>
    /\ UNCHANGED <<prev_apply, disk0, backed, written, answer, last_apply, out>>

\* write_file_atomic fails before the move: NamedTemporaryFile raises (no
\* file is made), or tmp.write raises after part of the content went out
\* (delete = False: the file stays).  The error reaches the top level: exit 1.
WriteTmpFail ==
    /\ pc = "write"
    /\ next_write(changes, idx) # 0
    /\ LET path == WritePath
           name == tmp_name(path, DOMAIN disk)
       IN  /\ \/ UNCHANGED disk
              \/ \E n \in 0..(Len(changes[path][2]) - 1) :
                    disk' = (name :> SubSeq(changes[path][2], 1, n)) @@ disk
           /\ wcalls' = wcalls \cup {path}
    /\ IF aborts(TRUE)
       THEN /\ Exit(1)
            /\ out' = out \cup {Msg("Fatal error", NoFile, 0, 0)}
            /\ UNCHANGED idx
       ELSE /\ idx' = next_write(changes, idx) + 1
            /\ UNCHANGED <<pc, exit_code, out>>
    /\ UNCHANGED <<rvars, bak, manifest_file, run, args, changes, manifest, tmp>>
    /\ UNCHANGED <<prev_apply, disk0, backed, written, answer, last_apply>>

\* write_file_atomic, line 28: shutil.move renames the temporary file onto the
\* target (same directory: one os.rename).
Move ==
    /\ pc = "move"
    /\ LET path == Keys(changes)[idx]
       IN  /\ disk' = [f \in DOMAIN disk \ {tmp} |-> IF f = path THEN disk[tmp] ELSE disk[f]]
           /\ written' = written \cup {path}
           /\ last_apply' = [last_apply EXCEPT !.over = @ \cup {path}]
           /\ out' = out \cup {Msg("Modified", path, 0, 0)}
    /\ tmp' = NoTmp
    /\ idx' = idx + 1
    /\ pc' = "write"
    /\ UNCHANGED <<rvars, bak, manifest_file, run, args, changes, manifest, exit_code>>
    /\ UNCHANGED <<prev_apply, disk0, backed, wcalls, answer>>

\* Lines 296-304: after the write loop, record_manifest if any backup was
\* made, the final count, return 0.
RecordManifest ==
    /\ pc = "write"
    /\ next_write(changes, idx) = 0
    /\ manifest_file' = IF persists(manifest)
                        THEN record_manifest(manifest_file, manifest) ELSE manifest_file
    /\ out' = out \cup {Msg("Completed", NoFile, summarize_stats(changes).files_modified, 0)}
                  \cup (IF persists(manifest)
                        THEN {Msg("Backup manifest saved", NoFile, 0, 0)} ELSE {})
    /\ last_apply' = [last_apply EXCEPT !.done = TRUE, !.entries = manifest]
    /\ Exit(0)
    /\ UNCHANGED <<rvars, disk, bak, run, args, idx, changes, manifest, tmp>>
    /\ UNCHANGED <<prev_apply, disk0, backed, wcalls, written, answer>>

\* restore_backups, lines 165-170: no manifest, return; else load it.
RestoreLoad ==
    /\ pc = "undo"
    /\ IF ~manifest_file.exists
       THEN /\ Exit(0)
            /\ out' = out \cup {Msg("No manifest found", NoFile, 0, 0)}
            /\ UNCHANGED <<manifest, idx>>
       ELSE /\ manifest' = manifest_file.entries
            /\ idx' = 1
            /\ pc' = "restore"
            /\ UNCHANGED <<exit_code, out>>
    /\ UNCHANGED <<rvars, fsvars, run, args, changes, tmp>>
    /\ UNCHANGED <<prev_apply, disk0, backed, wcalls, written, answer, last_apply>>

\* restore_backups, lines 172-177: one manifest entry; after the last, main
\* returns 0.
RestoreEntry ==
    /\ pc = "restore"
    /\ LET original == Keys(manifest)[idx]
           backup == manifest[original]
       IN  IF backup \in DOMAIN bak
           THEN /\ disk' = [disk EXCEPT ![original] = bak[backup]]
                /\ out' = out \cup {Msg("Restored", original, 0, 0)}
           ELSE /\ UNCHANGED disk
                /\ out' = out \cup {Msg("Backup not found", original, 0, 0)}
    /\ IF idx < Len(Keys(manifest)) /\ continues(manifest[Keys(manifest)[idx]] \in DOMAIN bak)
       THEN idx' = idx + 1 /\ UNCHANGED <<pc, exit_code>>
       ELSE UNCHANGED idx /\ Exit(0)
    /\ UNCHANGED <<rvars, bak, manifest_file, run, args, changes, manifest, tmp>>
    /\ UNCHANGED <<prev_apply, disk0, backed, wcalls, written, answer, last_apply>>

\* KeyboardInterrupt anywhere in main: "Operation cancelled", exit 1.
Interrupt ==
    /\ pc # "idle"
    /\ Exit(1)
    /\ out' = out \cup {Msg("Operation cancelled", NoFile, 0, 0)}
    /\ UNCHANGED <<rvars, fsvars, run, args, idx, changes, manifest, tmp>>
    /\ UNCHANGED <<prev_apply, disk0, backed, wcalls, written, answer, last_apply>>

Next ==
    \/ StartRun
    \/ ScanFile
    \/ Preview
    \/ Confirm
    \/ WriteTmp
    \/ WriteTmpFail
    \/ Move
    \/ RecordManifest
    \/ RestoreLoad
    \/ RestoreEntry
    \/ Interrupt

Spec == Init /\ [][Next]_vars

\* ------------------------------------------------------------------------
\* SpecPasses: two --apply runs and an --undo run on one manifest path
\* ------------------------------------------------------------------------
PassPlan == <<"apply", "apply", "undo">>

\* The next run of the plan: --apply (with or without --preview), or --undo.
StartPass ==
    /\ run < Len(PassPlan)
    /\ \E a \in ArgsSet :
          /\ a.undo <=> PassPlan[run + 1] = "undo"
          /\ a.apply <=> PassPlan[run + 1] = "apply"
          /\ StartRunAs(a, FALSE)

PassesNext ==
    \/ StartPass
    \/ ScanFile
    \/ Preview
    \/ Confirm
    \/ WriteTmp
    \/ WriteTmpFail
    \/ Move
    \/ RecordManifest
    \/ RestoreLoad
    \/ RestoreEntry
    \/ Interrupt

SpecPasses == Init /\ [][PassesNext]_vars

\* ------------------------------------------------------------------------
\* Properties of main (Spec)
\* ------------------------------------------------------------------------
RunEnded == pc = "idle" /\ run >= 1

ScanRun == run >= 1 /\ ~args.undo

\* An undo run has just run to completion.
UndoDone == RunEnded /\ args.undo /\ exit_code = 0

\* C1: Backup/restore round trip.  When an undo run completes, every file
\* the latest --apply run overwrote has the content it had before that run.
C1_UndoRestoresApply ==
    UndoDone => \A f \in last_apply.over : disk[f] = last_apply.pre[f]

\* The round trip for a pass that ran to completion (its manifest persisted).
C1_CompletedPassRoundTrip ==
    (UndoDone /\ last_apply.done) => \A f \in last_apply.over : disk[f] = last_apply.pre[f]

\* C2: Backup strictly precedes write.  The path about to be handed to
\* write_file_atomic, and every path already handed to it, has a backup that
\* holds the path's content from before the write, recorded in manifest.
HasBackup(f) ==
    /\ f \in backed
    /\ f \in DOMAIN manifest
    /\ manifest[f] \in DOMAIN bak
    /\ bak[manifest[f]] = disk0[f]

C2_BackupPrecedesWrite ==
    ScanRun =>
        /\ \A f \in wcalls : HasBackup(f)
        /\ (pc = "write" /\ next_write(changes, idx) # 0) =>
              (HasBackup(WritePath) /\ disk[WritePath] = disk0[WritePath])

C2_Witness == RunEnded /\ exit_code = 0 /\ written # {}

\* main returned: the run was neither interrupted nor ended by an error.
MainReturned ==
    /\ Msg("Operation cancelled", NoFile, 0, 0) \notin out
    /\ Msg("Fatal error", NoFile, 0, 0) \notin out

\* C3: over a run of main that returns, the paths passed to backup_file are
\* the paths passed to write_file_atomic.
C3_BackupIffWritten ==
    (RunEnded /\ ~args.undo /\ MainReturned) => backed = wcalls

\* C4: declining the prompt: no write was begun, and the disk is as it was
\* when the run started.
C4_DeclineWritesNothing ==
    answer = "no" =>
        /\ RunEnded
        /\ exit_code = 1
        /\ wcalls = {}
        /\ written = {}
        /\ disk = disk0

C4_Witness == answer = "no" /\ backed # {}

\* C5: a run without --apply changes no source file, makes no backup and
\* persists no manifest: none of its steps changes the file system.
C5_PreviewNeverWrites ==
    [][(pc # "idle" /\ ~args.apply /\ ~args.undo) =>
          (disk' = disk /\ bak' = bak /\ manifest_file' = manifest_file
           /\ backed' = {} /\ wcalls' = {})]_vars

C5_Witness ==
    /\ RunEnded
    /\ ~args.apply /\ ~args.undo
    /\ exit_code = 0
    /\ \E f \in DOMAIN changes : changes[f][1] # changes[f][2]

\* C6: atomic write.  A target whose write_file_atomic call has begun and not
\* completed its move (in progress, failed or interrupted) holds exactly its
\* old content; a target whose move completed holds the complete new content;
\* no other file changes.
C6_AtomicWrite ==
    ScanRun =>
        \A f \in Files :
            /\ f \in written => disk[f] = changes[f][2]
            /\ f \notin written => disk[f] = disk0[f]

\* A write failed while the content went to the temporary file.
C6_Witness ==
    /\ RunEnded
    /\ exit_code = 1
    /\ wcalls \ written # {}
    /\ DOMAIN disk # DOMAIN disk0

\* C10: per-file failure isolation.
Failing(f) == ReadFails(disk0[f]) \/ ParseFails(disk0[f])

\* The scan ran over every file (the run was not interrupted, and found files).
ScanOver ==
    /\ ScanRun
    /\ pc # "scan"
    /\ Msg("Operation cancelled", NoFile, 0, 0) \notin out
    /\ Msg("No Python files found", NoFile, 0, 0) \notin out

\* What the run yields for file number k when the failing files are left out
\* of the batch: the ChangeRecord of the file alone, and the backup name
\* probed among the backups of the touched files before it.
AloneRecord(f) == safe_process_file(disk0[f], args.old, args.new)

AloneBackup(k) ==
    LET f == collect_py_files[k]
        before == {j \in 1..(k - 1) :
                      /\ ~Failing(collect_py_files[j])
                      /\ AloneRecord(collect_py_files[j])[3]
                      /\ collect_py_files[j].base = f.base}
    IN  BackupPath(run, f.base, Cardinality(before))

\* C10: a failing file is reported, has no ChangeRecord with touched = true,
\* is never backed up or written and keeps its content; the scan still runs
\* over the whole batch, and every other file gets the ChangeRecord, the
\* backup and the write it gets in a batch without the failing files.
C10_FailureIsolation ==
    /\ ScanRun =>
          \A f \in Files : Failing(f) =>
              /\ f \notin backed /\ f \notin wcalls /\ f \notin written
              /\ f \notin DOMAIN manifest
              /\ f \in DOMAIN changes => changes[f][1] = changes[f][2]
              /\ disk[f] = disk0[f]
    /\ ScanOver =>
          \A k \in 1..NumFiles :
              LET f == collect_py_files[k]
                  r == AloneRecord(f)
              IN  /\ Failing(f) => Msg("Error processing", f, 0, 0) \in out
                  /\ ~Failing(f) =>
                        /\ f \in DOMAIN changes
                        /\ changes[f] = <<r[1], r[2]>>
                        /\ (args.apply /\ r[3]) =>
                              (HasBackup(f) /\ manifest[f] = AloneBackup(k))
                        /\ ~(args.apply /\ r[3]) => f \notin backed
                        /\ (RunEnded /\ exit_code = 0 /\ args.apply) =>
                              (f \in written <=> r[1] # r[2])

\* A completed --apply run that wrote a file scanned after a failing one.
C10_Witness ==
    /\ RunEnded /\ exit_code = 0 /\ args.apply
    /\ \E j, k \in 1..NumFiles :
          /\ j < k
          /\ Failing(collect_py_files[j])
          /\ collect_py_files[k] \in written

\* C11: every discovered file is counted in files_scanned: once the scan is
\* over, files_scanned is the number of files collect_py_files returned.
C11_EveryFileScanned ==
    ScanOver => summarize_stats(changes).files_scanned = Len(collect_py_files)

\* C12: undo attempts every manifest entry independently.  When an undo run
\* that found a manifest returns, every entry whose backup exists is reported
\* restored and its original holds the backup's content, and every entry whose
\* backup is missing is reported and its original is as it was.
C12_UndoAttemptsEveryEntry ==
    (UndoDone /\ manifest_file.exists) =>
        \A original \in DOMAIN manifest_file.entries :
            LET backup == manifest_file.entries[original]
            IN  IF backup \in DOMAIN bak
                THEN /\ disk[original] = bak[backup]
                     /\ Msg("Restored", original, 0, 0) \in out
                ELSE /\ disk[original] = disk0[original]
                     /\ Msg("Backup not found", original, 0, 0) \in out

\* An undo restored a file from an entry that comes after an entry whose
\* backup is missing.
C12_Witness ==
    /\ UndoDone /\ manifest_file.exists
    /\ \E j, k \in 1..Len(Keys(manifest_file.entries)) :
          /\ j < k
          /\ manifest_file.entries[Keys(manifest_file.entries)[j]] \notin DOMAIN bak
          /\ manifest_file.entries[Keys(manifest_file.entries)[k]] \in DOMAIN bak
          /\ disk[Keys(manifest_file.entries)[k]] # disk0[Keys(manifest_file.entries)[k]]

\* The current run persisted its manifest.
Saved == Msg("Backup manifest saved", NoFile, 0, 0) \in out

\* A confirmed --apply run has run to completion.
ApplyDone == RunEnded /\ ~args.undo /\ args.apply /\ answer = "yes" /\ exit_code = 0

\* C13: manifest persistence ordering.  A step persists the manifest only in
\* a confirmed --apply run, when every write of the write loop has completed,
\* and what it persists is the run's mapping from original to backup path; a
\* completed confirmed --apply run has persisted the manifest if and only if
\* it made at least one backup, and the persisted mapping holds exactly the
\* paths it backed up, each with the backup that holds its content.
C13_ManifestOrdering ==
    /\ [](ApplyDone =>
            /\ Saved <=> backed # {}
            /\ Saved => /\ manifest_file = Persisted(manifest)
                        /\ DOMAIN manifest = backed
                        /\ \A f \in backed : bak[manifest[f]] = disk0[f])
    /\ [][(manifest_file' # manifest_file \/ (Saved' /\ ~Saved)) =>
             /\ pc = "write" /\ args.apply /\ answer = "yes"
             /\ tmp = NoTmp
             /\ \A f \in DOMAIN changes :
                   writes(changes[f][1], changes[f][2]) =>
                       (f \in written /\ disk[f] = changes[f][2])
             /\ manifest_file' = Persisted(manifest)
             /\ disk' = disk]_vars

\* Both sides: a completed run that wrote and persisted, and a completed
\* confirmed run that made no backup and left the manifest file alone.
C13_Witness == ApplyDone /\ Saved /\ written # {}

C13_WitnessNoBackup == ApplyDone /\ ~Saved /\ backed = {}

\* C14: the prompt is invoked only in --apply mode and only when some scanned
\* file has a change to apply.
C14_ConfirmOnlyWithChanges ==
    answer # "none" =>
        /\ args.apply
        /\ \E f \in DOMAIN changes : changes[f][1] # changes[f][2]

\* The paths the write loop writes, in its order.
WriteOrder == SelectSeq(Keys(changes), LAMBDA f : writes(changes[f][1], changes[f][2]))

\* C16: abort mid-batch.  In the write phase of a confirmed --apply run: once
\* a write has failed the run is over with exit code 1 and performs no
\* further write (the written paths are a prefix of the write order, and at
\* most the next path was begun); every path already written holds its
\* modified content and every other file its original content; every backup
\* made is still there with the original content; and no step of any run
\* removes or alters a backup.
C16_AbortMidBatch ==
    /\ []((ScanRun /\ answer = "yes") =>
            /\ (wcalls \ written # {} /\ pc # "move") => (RunEnded /\ exit_code = 1)
            /\ \E n \in 0..Len(WriteOrder) :
                  /\ written = {WriteOrder[i] : i \in 1..n}
                  /\ wcalls \subseteq {WriteOrder[i] : i \in 1..(n + 1) \cap 1..Len(WriteOrder)}
            /\ \A f \in Files :
                  disk[f] = IF f \in written THEN changes[f][2] ELSE disk0[f]
            /\ \A f \in backed : HasBackup(f))
    /\ [][\A b \in DOMAIN bak : b \in DOMAIN bak' /\ bak'[b] = bak[b]]_vars

\* A run aborted in the write phase after one file was written and before
\* another file that was to be written.
C16_Witness ==
    /\ RunEnded /\ exit_code = 1 /\ answer = "yes"
    /\ written # {}
    /\ \E k \in 1..Len(WriteOrder) : WriteOrder[k] \notin written

\* C17: the temporary file of write_file_atomic is gone on every exit path:
\* outside a call of write_file_atomic no temporary file is on disk.
C17_NoTempFileLeft ==
    pc # "move" => TmpFiles = {}

\* C18: process exit code.  A run that ended has exit code 0 when main
\* returned from undo, from an empty root, from a preview or from a completed
\* apply, and exit code 1 exactly when the operator declined, the run was
\* interrupted, or a failure reached the top level.
C18_ExitCode ==
    RunEnded =>
        /\ exit_code \in {0, 1}
        /\ exit_code = 1 <=>
              \/ Msg("Aborted", NoFile, 0, 0) \in out
              \/ Msg("Operation cancelled", NoFile, 0, 0) \in out
              \/ Msg("Fatal error", NoFile, 0, 0) \in out
        /\ Msg("Aborted", NoFile, 0, 0) \in out <=> answer = "no"
        /\ Msg("Fatal error", NoFile, 0, 0) \in out <=> (wcalls \ written # {} /\ tmp = NoTmp)
        /\ exit_code = 0 =>
              \/ args.undo
              \/ Msg("No Python files found", NoFile, 0, 0) \in out
              \/ ~args.apply /\ Msg("Summary", NoFile, summarize_stats(changes).files_modified,
                                    summarize_stats(changes).files_unchanged) \in out
              \/ ApplyDone /\ Msg("Completed", NoFile, summarize_stats(changes).files_modified, 0) \in out

\* An interrupted write phase, and a completed undo after an earlier run.
C18_Witness ==
    /\ RunEnded /\ exit_code = 1
    /\ Msg("Operation cancelled", NoFile, 0, 0) \in out
    /\ answer = "yes"

C18_WitnessZero == RunEnded /\ exit_code = 0 /\ args.undo /\ run = MaxRuns

\* The paths of the manifest that come before f in scan order and share its
\* base name.
SameNameBefore(f) ==
    {g \in DOMAIN manifest :
        /\ g.base = f.base
        /\ \E j, k \in 1..Len(collect_py_files) :
              j < k /\ collect_py_files[j] = g /\ collect_py_files[k] = f}

\* C19: backup names are collision-free.  Every call of backup_file chooses
\* a path that does not exist when chosen and leaves every earlier backup as
\* it was; the name is name.bak for the first file of a base name and
\* name.bak.k for the k-th later one; and distinct original paths have
\* distinct backup paths in the manifest.
C19_BackupNamesCollisionFree ==
    /\ [](ScanRun =>
            /\ \A f, g \in DOMAIN manifest : f # g => manifest[f] # manifest[g]
            /\ \A f \in DOMAIN manifest :
                  manifest[f] = BackupPath(run, f.base, Cardinality(SameNameBefore(f))))
    /\ [][\A f \in backed' \ backed :
             /\ manifest'[f] \notin DOMAIN bak
             /\ manifest'[f] \in DOMAIN bak'
             /\ bak'[manifest'[f]] = disk[f]
             /\ \A b \in DOMAIN bak : b \in DOMAIN bak' /\ bak'[b] = bak[b]]_vars

\* Two files with the same base name in different directories were backed up.
C19_Witness ==
    /\ ScanRun
    /\ \E f, g \in backed :
          /\ f # g /\ f.base = g.base /\ f.dir # g.dir
          /\ manifest[f].n = 0 /\ manifest[g].n = 1

\* Two confirmed --apply runs ran to completion, the second persisted its
\* manifest, and the --undo run after them has returned.
TwoPassesThenUndo ==
    /\ run = Len(PassPlan)
    /\ UndoDone
    /\ prev_apply.done /\ last_apply.done
    /\ persists(last_apply.entries)

\* C20: the manifest is replaced, not merged.  After two completed --apply
\* runs and an undo, the manifest file holds exactly the second run's entries;
\* every file of those entries (every file the second run overwrote among
\* them) has its content from just before the second run; and every other
\* file is as the second run left it: a file only the first run overwrote
\* still holds what the first run wrote.
C20_ManifestReplaced ==
    TwoPassesThenUndo =>
        /\ manifest_file = Persisted(last_apply.entries)
        /\ last_apply.over \subseteq DOMAIN last_apply.entries
        /\ \A f \in Files :
              disk[f] = IF f \in DOMAIN last_apply.entries
                        THEN last_apply.pre[f] ELSE disk0[f]
        /\ \A f \in prev_apply.over \ last_apply.over :
              disk[f] = last_apply.pre[f]

\* The first run overwrote a file that is no entry of the second run's
\* manifest, and after the undo the file still differs from what it was
\* before the first run.
C20_Witness ==
    /\ TwoPassesThenUndo
    /\ \E f \in prev_apply.over \ DOMAIN last_apply.entries :
          disk[f] # prev_apply.pre[f]

\* ------------------------------------------------------------------------
\* Properties of the rename pass (SpecRename)
\* ------------------------------------------------------------------------
\* The positions of the tree whose node is of one of the six kinds and is
\* spelled w.
IdentifierNodes(t, w) ==
    {p \in Positions(t) : NodeAt(t, p).kind \in SixKinds /\ NodeAt(t, p).id = w}

\* The positions of the tree whose node is a string literal spelled w.
LiteralNodes(t, w) ==
    {p \in Positions(t) : NodeAt(t, p).kind = "Constant" /\ NodeAt(t, p).id = w}

PassDone == pass >= 1 /\ phase # "scan"

\* C7: Locator/Rewriter lock-step.  After a pass that found occurrences,
\* every node find_identifiers reported carries the new spelling, and no node
\* of the six kinds is still spelled old.
C7_LockStep ==
    (PassDone /\ rec[3]) =>
        /\ \A k \in 1..Len(occurrences) :
              NodeAt(modified_tree, occurrences[k].pos).id = spelling[2]
        /\ IdentifierNodes(modified_tree, spelling[1]) = {}

\* C8: Idempotence.  The second pass, run on the output of the first, finds
\* no occurrence and returns touched = false with modified equal to original.
C8_Idempotent ==
    (pass = 2 /\ phase # "scan") =>
        /\ occurrences = <<>>
        /\ rec[3] = FALSE
        /\ rec[1] = rec[2]

\* C9: Negative containment.  The Renamer keeps the shape of the tree and the
\* class of every node, and changes no field of a node outside the six kinds
\* (string literals keep their text); the serialized output holds no comment
\* the input did not hold; and a parseable file in which old is the spelling
\* of no identifier node (it occurs in literals or comments at most) comes out
\* with touched = false and modified identical to the original text.
C9_NegativeContainment ==
    PassDone =>
        /\ Positions(modified_tree) = Positions(tree)
        /\ \A p \in Positions(tree) :
              /\ NodeAt(modified_tree, p).kind = NodeAt(tree, p).kind
              /\ NodeAt(tree, p).kind \notin SixKinds =>
                    NodeAt(modified_tree, p).id = NodeAt(tree, p).id
        /\ \A i \in 1..Len(rec[2]) :
              rec[2][i].t = "comment" => \E j \in 1..Len(source) : source[j] = rec[2][i]
        /\ rec[3] => /\ parse_to_ast(rec[2]) = modified_tree
                     /\ \A w \in Idents :
                           LiteralNodes(parse_to_ast(rec[2]), w) = LiteralNodes(tree, w)
        /\ (~ReadFails(source) /\ ~ParseFails(source)
            /\ IdentifierNodes(parse_to_ast(source), spelling[1]) = {}) =>
                rec = <<source, source, FALSE>>

\* C9 witnesses: a touched file that also holds old inside a string literal
\* and a comment; and a file holding old only inside a literal and a comment.
C9_Witness ==
    /\ PassDone
    /\ rec[3]
    /\ LiteralNodes(tree, spelling[1]) # {}
    /\ \E j \in 1..Len(source) : source[j] = CommentLine(spelling[1])

C9_WitnessOnlyLiteral ==
    /\ PassDone
    /\ ~rec[3]
    /\ LiteralNodes(tree, spelling[1]) # {}
    /\ rec[1] # EmptyText

\* C15: touched implies changed text.
C15_TouchedChanges ==
    PassDone => (rec[3] => rec[1] # rec[2])

====
